---- MODULE Spec2Model ----
(***************************************************************************)
(* Synthetic e-commerce data pipeline: the JSON programs of                *)
(* src/project/scripts and the CSV programs of src/scripts.                *)
(*                                                                         *)
(*   generate_data.py   -> five dataset files                              *)
(*   ingest_to_sqlite.py-> DROP/CREATE schema, bulk insert, one commit     *)
(*   run_queries.py, custom_queries.py -> read-only reports                *)
(*                                                                         *)
(* Money is counted in mills (1/1000 of a currency unit), so that          *)
(* round(x, 2) is a real operation: it rounds to a multiple of 10 mills.   *)
(* Time is counted in ticks since datetime(2019, 1, 1).                    *)
(***************************************************************************)
EXTENDS Integers, Sequences, FiniteSets, TLC

VARIABLES
    variant,      \* "json" (src/project/scripts) or "csv" (src/scripts)
    seed,         \* the argument of random.seed
    counts,       \* requested entity counts
    pc,           \* position of the running command, "idle" when none runs
    rng,          \* state of the process-wide random generator
    now,          \* last value read from datetime.now()
    users, products, orders, order_items, reviews,   \* generator collections
    files,        \* the dataset files under DATA_DIR
    fs,           \* database paths that exist as files
    db,           \* durable (committed) content of DB_PATH
    txn,          \* content as seen by the loader's open connection
    datasets,     \* the loader's in-memory datasets
    log,          \* events of the current / last command, in order
    exit,         \* exit status and message of the last command
    runs,         \* generator runs started so far
    loads,        \* load invocations started so far
    edits,        \* outside changes made to the dataset files so far
    prev,         \* collections produced by the previous generator run
    before,       \* durable database content when the running load began
    loaded,       \* the dataset files as the last load found them, whether the
                  \* load before found the same, and the database before the
                  \* first load of these files
    report        \* the tables the running or last command has printed

vars == <<variant, seed, counts, pc, rng, now, users, products, orders,
          order_items, reviews, files, fs, db, txn, datasets, log, exit,
          runs, loads, edits, prev, before, loaded, report>>

genvars == <<users, products, orders, order_items, reviews>>
dbvars == <<fs, db, txn, datasets, before>>

-----------------------------------------------------------------------------
(* Bounds of the model *)

NumUsers == 2
NumProducts == 2
NumOrders == 3
NumItems == 3
NumReviews == 2
MaxSeed == 5
MaxClock == 2
MaxLoads == 2
MaxEdits == 1
MaxTotalsLen == 2
MaxReruns == 3

(* Program constants *)

UserStart == 0      \* datetime(2019, 1, 1)
OrderStart == 8     \* datetime(2021, 1, 1), in quarters since UserStart
MinQuantity == 1
MaxQuantity == 5

FIRST_NAMES == <<"Avery", "Brooke", "Cameron", "Dakota", "Elliot", "Finley",
                 "Harper", "Jordan", "Kai", "Logan">>
LAST_NAMES == <<"Smith", "Johnson", "Reyes", "Hughes", "Patel", "Garcia",
                "Matsumoto", "Nakamura", "Silva", "Romero">>
CSV_LAST_NAMES == <<"Smith", "Johnson", "Lee", "Patel", "Garcia", "Brown",
                    "Martinez", "Lopez", "Kim", "Reyes">>
CITIES == << <<"Seattle", "USA">>, <<"Vancouver", "Canada">>, <<"London", "UK">>,
             <<"Sydney", "Australia">>, <<"Berlin", "Germany">>,
             <<"Paris", "France">> >>
CSV_CITIES == << <<"Seattle", "United States">>, <<"Toronto", "Canada">>,
                 <<"London", "United Kingdom">>, <<"Berlin", "Germany">>,
                 <<"Paris", "France">>, <<"Sydney", "Australia">> >>
CATEGORIES == <<"Electronics", "Home", "Outdoors", "Books", "Beauty", "Toys">>
ORDER_STATUSES == <<"pending", "processing", "shipped", "delivered", "cancelled">>
REVIEW_COMMENTS == <<"Great quality and fast shipping",
                     "Product was okay, could be better",
                     "Exceeded expectations", "Not worth the price",
                     "Solid purchase overall", "Impressed with the durability">>
CSV_REVIEW_COMMENTS == <<"Fantastic quality and fast shipping",
                         "Product was okay, could be better",
                         "Exceeded expectations", "Not worth the price",
                         "Solid purchase overall", "Impressed with the durability">>
descriptors == <<"Wireless", "Eco", "Pro", "Compact", "Ultra", "Smart">>
nouns == <<"Speaker", "Lamp", "Tent", "Cookbook", "Serum", "Drone", "Backpack">>
adjectives == <<"Wireless", "Smart", "Eco", "Ultra", "Compact", "Pro">>
csv_nouns == <<"Speaker", "Lamp", "Backpack", "Tent", "Cookbook", "Serum",
               "Drone", "Headset">>
streets == <<"Oak", "Pine", "Cedar", "Maple">>

TableNames == <<"users", "products", "orders", "order_items", "reviews">>
DEFAULT_DB == "database/ecom.db"
OTHER_DB == "elsewhere/other.db"
DbPaths == {DEFAULT_DB, OTHER_DB}

-----------------------------------------------------------------------------
(* The random module: a seeded, deterministic generator.  The Mersenne     *)
(* Twister is stood in for by a 16-bit linear congruential generator; the  *)
(* functions drawing from it follow CPython's random.py.                   *)

RECURSIVE Pow2(_)
Pow2(k) == IF k = 0 THEN 1 ELSE 2 * Pow2(k - 1)

\* int.bit_length
bit_length(n) == CHOOSE k \in 0..16 : Pow2(k) > n /\ (k = 0 \/ Pow2(k - 1) <= n)

\* one step of the generator; the new state is the word it yields
NextWord(s) == (25173 * s + 13849) % 65536

\* getrandbits(k): the top k bits of the next word
getrandbits(s, k) == [v |-> NextWord(s) \div Pow2(16 - k), s |-> NextWord(s)]

\* Random._randbelow_with_getrandbits: rejection sampling below n
RECURSIVE randbelow(_, _)
randbelow(s, n) ==
    LET r == getrandbits(s, bit_length(n))
    IN  IF r.v >= n THEN randbelow(r.s, n) ELSE r

\* random.randint(a, b)
randint(s, a, b) == LET r == randbelow(s, b - a + 1) IN [v |-> a + r.v, s |-> r.s]

\* random.choice(seq), seq not empty
choice(s, seq) == LET r == randbelow(s, Len(seq)) IN [v |-> seq[r.v + 1], s |-> r.s]

\* random.uniform(a, b) = a + (b - a) * random(); random() consumes two
\* words and is a fraction of 2048 here.  a and b are in mills.
uniform(s, a, b) ==
    LET w1 == NextWord(s)
        w2 == NextWord(w1)
    IN  [v |-> a + ((b - a) * (w1 \div 32)) \div 2048, s |-> w2]

\* round(x, 2) on an amount in mills: to the nearest 10 mills, ties to even
round2(x) ==
    LET q == x \div 10
        r == x % 10
    IN  IF r > 5 \/ (r = 5 /\ q % 2 = 1) THEN (q + 1) * 10 ELSE q * 10

\* random_date(start, end): start + randint(0, int((end - start).total_seconds()))
random_date(s, start, end) ==
    LET r == randint(s, 0, end - start) IN [v |-> start + r.v, s |-> r.s]

-----------------------------------------------------------------------------
(* Files, tables and command results *)

NoFile == [exists |-> FALSE, rows |-> <<>>]
File(rows) == [exists |-> TRUE, rows |-> rows]
NoFiles == [t \in {"users", "products", "orders", "order_items", "reviews"} |-> NoFile]

EmptyTables == [t \in {"users", "products", "orders", "order_items", "reviews"} |-> <<>>]
\* a database file without schema, as sqlite3.connect creates it
NoSchema == [schema |-> FALSE, tables |-> EmptyTables]
\* the schema of create_tables, all five tables empty
FreshSchema == [schema |-> TRUE, tables |-> EmptyTables]

\* arg is the database path a query command was given
NoExit == [cmd |-> "none", status |-> 0, msg |-> <<>>, arg |-> ""]
Exit(cmd, status, msg) == [cmd |-> cmd, status |-> status, msg |-> msg, arg |-> ""]
QueryExit(cmd, path, status, msg) ==
    [cmd |-> cmd, status |-> status, msg |-> msg, arg |-> path]

NoOutput == [users |-> <<>>, products |-> <<>>, orders |-> <<>>,
             order_items |-> <<>>, reviews |-> <<>>]
Output == [users |-> users, products |-> products, orders |-> orders,
           order_items |-> order_items, reviews |-> reviews]

\* no load has read the dataset files yet
NotLoaded == [files |-> NoFiles, again |-> FALSE, prior |-> NoSchema]

\* the values datetime.now() can return after an earlier read t
NowFrom(t) == t..(OrderStart + MaxClock)

-----------------------------------------------------------------------------
(* src/project/scripts/generate_data.py: the JSON generator *)

\* a variant of JsonMainNext that aggregates before the items exist
JsonMainNextTotalsFirst(stage) ==
    CASE stage = "gen_users" -> "gen_products"
      [] stage = "gen_products" -> "gen_orders"
      [] stage = "gen_orders" -> "totals"
      [] stage = "totals" -> "gen_items"
      [] stage = "gen_items" -> "gen_reviews"
      [] stage = "gen_reviews" -> "write_users"
      [] stage = "write_users" -> "write_products"
      [] stage = "write_products" -> "write_orders"
      [] stage = "write_orders" -> "write_order_items"
      [] stage = "write_order_items" -> "write_reviews"
      [] OTHER -> "idle"

\* the order of the calls in main()
JsonMainNext(stage) ==
    CASE stage = "gen_users" -> "gen_products"
      [] stage = "gen_products" -> "gen_orders"
      [] stage = "gen_orders" -> "gen_items"
      [] stage = "gen_items" -> "totals"
      [] stage = "totals" -> "gen_reviews"
      [] stage = "gen_reviews" -> "write_users"
      [] stage = "write_users" -> "write_products"
      [] stage = "write_products" -> "write_orders"
      [] stage = "write_orders" -> "write_order_items"
      [] stage = "write_order_items" -> "write_reviews"
      [] OTHER -> "idle"

\* process start: random.seed(2025) at import, then main() enters
\* generate_users, which reads datetime.now()
StartJson ==
    /\ variant = "json" /\ pc = "idle" /\ runs = 0
    /\ \E t \in NowFrom(OrderStart + 1) : now' = t
    /\ rng' = seed
    /\ pc' = "gen_users"
    /\ runs' = runs + 1
    /\ users' = <<>> /\ products' = <<>> /\ orders' = <<>>
    /\ order_items' = <<>> /\ reviews' = <<>>
    /\ log' = <<>>
    /\ exit' = NoExit
    /\ report' = <<>>
    /\ UNCHANGED <<variant, seed, counts, loaded, files, dbvars, loads, edits, prev>>

\* the uncaught IndexError of random.choice on an empty pool
JsonCrash ==
    /\ pc' = "idle"
    /\ exit' = Exit("generate", 1, <<"IndexError">>)
    /\ UNCHANGED <<rng, now, genvars, log>>

\* f"{first.lower()}.{last.lower()}{uid}@example.com": the names, which
\* hold no digit, then the identity
user_email(first, last, uid) == <<first, last, uid, "@example.com">>

\* one iteration of the loop of generate_users, or its return
generate_users ==
    /\ variant = "json" /\ pc = "gen_users"
    /\ IF Len(users) < counts.users
       THEN LET uid == Len(users) + 1
                first == choice(rng, FIRST_NAMES)
                last == choice(first.s, LAST_NAMES)
                city == choice(last.s, CITIES)
                signup == random_date(city.s, UserStart, now)
            IN  /\ users' = Append(users,
                        [user_id |-> uid, name |-> <<first.v, last.v>>,
                         email |-> user_email(first.v, last.v, uid),
                         location |-> city.v, signup_date |-> signup.v])
                /\ rng' = signup.s
                /\ log' = Append(log, "gen_users")
                /\ UNCHANGED <<pc, now>>
       ELSE /\ pc' = JsonMainNext(pc)
            \* generate_orders reads datetime.now() on entry
            /\ IF pc' = "gen_orders" THEN \E t \in NowFrom(now) : now' = t
                                     ELSE now' = now
            /\ UNCHANGED <<users, rng, log>>
    /\ UNCHANGED <<variant, seed, counts, report, loaded, products, orders, order_items, reviews,
                   files, dbvars, exit, runs, loads, edits, prev>>

\* one iteration of the loop of generate_products, or its return
generate_products ==
    /\ variant = "json" /\ pc = "gen_products"
    /\ IF Len(products) < counts.products
       THEN LET pid == Len(products) + 1
                category == choice(rng, CATEGORIES)
                d == choice(category.s, descriptors)
                n == choice(d.s, nouns)
                price == uniform(n.s, 10000, 600000)
                stock == randint(price.s, 10, 500)
            IN  /\ products' = Append(products,
                        [product_id |-> pid, name |-> <<d.v, n.v>>,
                         category |-> category.v, price |-> round2(price.v),
                         stock |-> stock.v])
                /\ rng' = stock.s
                /\ log' = Append(log, "gen_products")
                /\ UNCHANGED <<pc, now>>
       ELSE /\ pc' = JsonMainNext(pc)
            /\ IF pc' = "gen_orders" THEN \E t \in NowFrom(now) : now' = t
                                     ELSE now' = now
            /\ UNCHANGED <<products, rng, log>>
    /\ UNCHANGED <<variant, seed, counts, report, loaded, users, orders, order_items, reviews,
                   files, dbvars, exit, runs, loads, edits, prev>>

\* one iteration of the loop of generate_orders, or its return
generate_orders ==
    /\ variant = "json" /\ pc = "gen_orders"
    /\ IF Len(orders) < counts.orders
       THEN IF users = <<>>
            THEN JsonCrash
            ELSE LET oid == Len(orders) + 1
                     user == choice(rng, users)
                     order_date == random_date(user.s, OrderStart, now)
                 IN  /\ orders' = Append(orders,
                             [order_id |-> oid, user_id |-> user.v.user_id,
                              order_date |-> order_date.v, total_amount |-> 0])
                     /\ rng' = order_date.s
                     /\ log' = Append(log, "gen_orders")
                     /\ UNCHANGED <<pc, now, exit, users, products, order_items, reviews>>
       ELSE /\ pc' = JsonMainNext(pc)
            /\ UNCHANGED <<genvars, rng, log, now, exit>>
    /\ UNCHANGED <<variant, seed, counts, report, loaded, files, dbvars, runs, loads, edits, prev>>

\* one iteration of the loop of generate_order_items, or its return
generate_order_items ==
    /\ variant = "json" /\ pc = "gen_items"
    /\ IF Len(order_items) < counts.order_items
       THEN IF orders = <<>> \/ products = <<>>
            THEN JsonCrash
            ELSE LET iid == Len(order_items) + 1
                     order == choice(rng, orders)
                     product == choice(order.s, products)
                     quantity == randint(product.s, MinQuantity, MaxQuantity)
                 IN  /\ order_items' = Append(order_items,
                             [item_id |-> iid, order_id |-> order.v.order_id,
                              product_id |-> product.v.product_id,
                              quantity |-> quantity.v, price |-> product.v.price])
                     /\ rng' = quantity.s
                     /\ log' = Append(log, "gen_items")
                     /\ UNCHANGED <<pc, now, exit, users, products, orders, reviews>>
       ELSE /\ pc' = JsonMainNext(pc)
            /\ UNCHANGED <<genvars, rng, log, now, exit>>
    /\ UNCHANGED <<variant, seed, counts, report, loaded, files, dbvars, runs, loads, edits, prev>>

\* a variant of Accumulate that adds the price and forgets the quantity
RECURSIVE AccumulatePrices(_, _, _)
AccumulatePrices(items, oid, acc) ==
    IF items = <<>> THEN acc
    ELSE AccumulatePrices(Tail(items), oid,
                          IF Head(items).order_id = oid
                          THEN acc + Head(items).price ELSE acc)

\* totals[item.order_id] += item.quantity * item.price, over the items in order
RECURSIVE Accumulate(_, _, _)
Accumulate(items, oid, acc) ==
    IF items = <<>> THEN acc
    ELSE Accumulate(Tail(items), oid,
                    IF Head(items).order_id = oid
                    THEN acc + Head(items).quantity * Head(items).price
                    ELSE acc)

\* the accumulator's initial value: {order.order_id: 0.0 for order in orders}
StaleInitialTotal(order) == order.total_amount
InitialTotal(order) == 0

\* totals[item.order_id] raises KeyError for an item of an unknown order
KeyError(ords, items) ==
    \E i \in 1..Len(items) :
        \A j \in 1..Len(ords) : ords[j].order_id # items[i].order_id

\* the dict comprehension keeps, for an order id, the value of its last order
TotalsEntry(ords, oid) ==
    LET last == CHOOSE j \in 1..Len(ords) :
                    /\ ords[j].order_id = oid
                    /\ \A k \in (j + 1)..Len(ords) : ords[k].order_id # oid
    IN  InitialTotal(ords[last])

\* update_order_totals(orders, items): the orders afterwards
update_order_totals(ords, items) ==
    IF KeyError(ords, items) THEN ords
    ELSE [i \in 1..Len(ords) |->
             [ords[i] EXCEPT !.total_amount =
                 round2(Accumulate(items, ords[i].order_id,
                                   TotalsEntry(ords, ords[i].order_id)))]]

\* main() calls update_order_totals(orders, order_items)
UpdateOrderTotals ==
    /\ variant = "json" /\ pc = "totals"
    /\ orders' = update_order_totals(orders, order_items)
    /\ pc' = JsonMainNext(pc)
    /\ log' = Append(log, "totals")
    /\ UNCHANGED <<variant, seed, counts, report, loaded, rng, now, users, products, order_items,
                   reviews, files, dbvars, exit, runs, loads, edits, prev>>

\* one iteration of the loop of generate_reviews, or its return
generate_reviews ==
    /\ variant = "json" /\ pc = "gen_reviews"
    /\ IF Len(reviews) < counts.reviews
       THEN IF users = <<>> \/ products = <<>>
            THEN JsonCrash
            ELSE LET rid == Len(reviews) + 1
                     user == choice(rng, users)
                     product == choice(user.s, products)
                     rating == randint(product.s, 1, 5)
                     comment == choice(rating.s, REVIEW_COMMENTS)
                 IN  /\ reviews' = Append(reviews,
                             [review_id |-> rid, user_id |-> user.v.user_id,
                              product_id |-> product.v.product_id,
                              rating |-> rating.v, comment |-> comment.v])
                     /\ rng' = comment.s
                     /\ log' = Append(log, "gen_reviews")
                     /\ UNCHANGED <<pc, now, exit, users, products, orders, order_items>>
       ELSE /\ pc' = JsonMainNext(pc)
            /\ UNCHANGED <<genvars, rng, log, now, exit>>
    /\ UNCHANGED <<variant, seed, counts, report, loaded, files, dbvars, runs, loads, edits, prev>>

\* the collection main() passes to write_json for a file
Payload(name) ==
    CASE name = "users" -> users
      [] name = "products" -> products
      [] name = "orders" -> orders
      [] name = "order_items" -> order_items
      [] OTHER -> reviews

\* write_json(filename, payload), one call of main() per step
write_json ==
    /\ variant = "json"
    /\ \E name \in {"users", "products", "orders", "order_items", "reviews"} :
          /\ pc = "write_" \o name
          /\ files' = [files EXCEPT ![name] = File(Payload(name))]
          /\ log' = Append(log, pc)
    /\ pc' = JsonMainNext(pc)
    /\ exit' = IF pc' = "idle" THEN Exit("generate", 0, <<"Wrote datasets">>) ELSE exit
    /\ UNCHANGED <<variant, seed, counts, report, loaded, rng, now, genvars, dbvars,
                   runs, loads, edits, prev>>

-----------------------------------------------------------------------------
(* src/scripts/generate_data.py: the CSV generator, one function generate() *)

\* the order of the blocks of generate()
CsvGenerateNext(stage) ==
    CASE stage = "gen_users" -> "gen_products"
      [] stage = "gen_products" -> "gen_orders"
      [] stage = "gen_orders" -> "gen_items"
      [] stage = "gen_items" -> "totals"
      [] stage = "totals" -> "gen_reviews"
      [] stage = "gen_reviews" -> "write_users"
      [] stage = "write_users" -> "write_products"
      [] stage = "write_products" -> "write_orders"
      [] stage = "write_orders" -> "write_order_items"
      [] stage = "write_order_items" -> "write_reviews"
      [] OTHER -> "idle"

\* the literal upper ends of the identity draws: random.randint(1, 50),
\* random.randint(1, 100), random.randint(1, 40), scaled like the loops
CsvUserIdMaxDrifted == NumUsers + 1
CsvOrderIdMaxDrifted == NumOrders + 1
CsvUserIdMax == NumUsers
CsvOrderIdMax == NumOrders
CsvProductIdMax == NumProducts

\* process start: random.seed(2025) at import; generate() reads now once
StartCsv ==
    /\ variant = "csv" /\ pc = "idle" /\ runs = 0
    /\ \E t \in NowFrom(OrderStart + 1) : now' = t
    /\ rng' = seed
    /\ pc' = "gen_users"
    /\ runs' = runs + 1
    /\ users' = <<>> /\ products' = <<>> /\ orders' = <<>>
    /\ order_items' = <<>> /\ reviews' = <<>>
    /\ log' = <<>>
    /\ exit' = NoExit
    /\ report' = <<>>
    /\ UNCHANGED <<variant, seed, counts, loaded, files, dbvars, loads, edits, prev>>

\* the users loop of generate()
csv_users ==
    /\ variant = "csv" /\ pc = "gen_users"
    /\ IF Len(users) < NumUsers
       THEN LET user_id == Len(users) + 1
                first == choice(rng, FIRST_NAMES)
                last == choice(first.s, CSV_LAST_NAMES)
                city == choice(last.s, CSV_CITIES)
                signup == random_date(city.s, UserStart, now)
            IN  /\ users' = Append(users,
                        [user_id |-> user_id, first_name |-> first.v,
                         last_name |-> last.v,
                         email |-> user_email(first.v, last.v, user_id),
                         signup_date |-> signup.v, country |-> city.v[2]])
                /\ rng' = signup.s
                /\ log' = Append(log, "gen_users")
                /\ pc' = pc
       ELSE /\ pc' = CsvGenerateNext(pc)
            /\ UNCHANGED <<users, rng, log>>
    /\ UNCHANGED <<variant, seed, counts, report, loaded, now, products, orders, order_items,
                   reviews, files, dbvars, exit, runs, loads, edits, prev>>

\* the products loop of generate(); price_lookup is the products' price
csv_products ==
    /\ variant = "csv" /\ pc = "gen_products"
    /\ IF Len(products) < NumProducts
       THEN LET product_id == Len(products) + 1
                a == choice(rng, adjectives)
                n == choice(a.s, csv_nouns)
                category == choice(n.s, CATEGORIES)
                price == uniform(category.s, 10000, 600000)
                stock == randint(price.s, 25, 500)
            IN  /\ products' = Append(products,
                        [product_id |-> product_id, name |-> <<a.v, n.v>>,
                         category |-> category.v, price |-> round2(price.v),
                         stock |-> stock.v])
                /\ rng' = stock.s
                /\ log' = Append(log, "gen_products")
                /\ pc' = pc
       ELSE /\ pc' = CsvGenerateNext(pc)
            /\ UNCHANGED <<products, rng, log>>
    /\ UNCHANGED <<variant, seed, counts, report, loaded, now, users, orders, order_items,
                   reviews, files, dbvars, exit, runs, loads, edits, prev>>

\* the orders loop of generate()
csv_orders ==
    /\ variant = "csv" /\ pc = "gen_orders"
    /\ IF Len(orders) < NumOrders
       THEN LET order_id == Len(orders) + 1
                user_id == randint(rng, 1, CsvUserIdMax)
                order_date == random_date(user_id.s, OrderStart, now)
                status == choice(order_date.s, ORDER_STATUSES)
                number == randint(status.s, 100, 9999)
                street == choice(number.s, streets)
            IN  /\ orders' = Append(orders,
                        [order_id |-> order_id, user_id |-> user_id.v,
                         order_date |-> order_date.v, status |-> status.v,
                         shipping_address |-> <<number.v, street.v, "St">>,
                         total_amount |-> 0])
                /\ rng' = street.s
                /\ log' = Append(log, "gen_orders")
                /\ pc' = pc
       ELSE /\ pc' = CsvGenerateNext(pc)
            /\ UNCHANGED <<orders, rng, log>>
    /\ UNCHANGED <<variant, seed, counts, report, loaded, now, users, products, order_items,
                   reviews, files, dbvars, exit, runs, loads, edits, prev>>

\* a variant of price_lookup that answers with the first product's price
first_price_lookup(product) == products[1].price

\* price_lookup[product]: the price stored for that product id
price_lookup(product) ==
    (CHOOSE p \in {products[i] : i \in 1..Len(products)} : p.product_id = product).price

\* the order items loop of generate()
csv_order_items ==
    /\ variant = "csv" /\ pc = "gen_items"
    /\ IF Len(order_items) < NumItems
       THEN LET order_item_id == Len(order_items) + 1
                order == randint(rng, 1, CsvOrderIdMax)
                product == randint(order.s, 1, CsvProductIdMax)
                quantity == randint(product.s, MinQuantity, MaxQuantity)
                unit_price == price_lookup(product.v)
            IN  /\ order_items' = Append(order_items,
                        [order_item_id |-> order_item_id, order_id |-> order.v,
                         product_id |-> product.v, quantity |-> quantity.v,
                         unit_price |-> unit_price,
                         line_total |-> round2(quantity.v * unit_price)])
                /\ rng' = quantity.s
                /\ log' = Append(log, "gen_items")
                /\ pc' = pc
       ELSE /\ pc' = CsvGenerateNext(pc)
            /\ UNCHANGED <<order_items, rng, log>>
    /\ UNCHANGED <<variant, seed, counts, report, loaded, now, users, products, orders,
                   reviews, files, dbvars, exit, runs, loads, edits, prev>>

\* totals[order_id] += line_total, over the items in order
RECURSIVE csv_accumulate(_, _, _)
csv_accumulate(items, oid, acc) ==
    IF items = <<>> THEN acc
    ELSE csv_accumulate(Tail(items), oid,
                        IF Head(items).order_id = oid
                        THEN acc + Head(items).line_total ELSE acc)

\* a variant of csv_order_totals that keeps only the orders that have items
csv_order_totals_pruned(ords, items) ==
    SelectSeq([i \in 1..Len(ords) |->
                  [ords[i] EXCEPT !.total_amount =
                      round2(csv_accumulate(items, ords[i].order_id, 0))]],
              LAMBDA o : \E i \in 1..Len(items) : items[i].order_id = o.order_id)

\* orders = [(*order[:5], round(totals[order[0]], 2)) for order in orders]
csv_order_totals(ords, items) ==
    [i \in 1..Len(ords) |->
        [ords[i] EXCEPT !.total_amount =
            round2(csv_accumulate(items, ords[i].order_id, 0))]]

\* the "Update order totals" block of generate()
csv_totals ==
    /\ variant = "csv" /\ pc = "totals"
    /\ orders' = csv_order_totals(orders, order_items)
    /\ pc' = CsvGenerateNext(pc)
    /\ log' = Append(log, "totals")
    /\ UNCHANGED <<variant, seed, counts, report, loaded, rng, now, users, products, order_items,
                   reviews, files, dbvars, exit, runs, loads, edits, prev>>

\* the reviews loop of generate()
csv_reviews ==
    /\ variant = "csv" /\ pc = "gen_reviews"
    /\ IF Len(reviews) < NumReviews
       THEN LET review_id == Len(reviews) + 1
                user_id == randint(rng, 1, CsvUserIdMax)
                product_id == randint(user_id.s, 1, CsvProductIdMax)
                rating == randint(product_id.s, 1, 5)
                comment == choice(rating.s, CSV_REVIEW_COMMENTS)
            IN  /\ reviews' = Append(reviews,
                        [review_id |-> review_id, user_id |-> user_id.v,
                         product_id |-> product_id.v, rating |-> rating.v,
                         comment |-> comment.v])
                /\ rng' = comment.s
                /\ log' = Append(log, "gen_reviews")
                /\ pc' = pc
       ELSE /\ pc' = CsvGenerateNext(pc)
            /\ UNCHANGED <<reviews, rng, log>>
    /\ UNCHANGED <<variant, seed, counts, report, loaded, now, users, products, orders,
                   order_items, files, dbvars, exit, runs, loads, edits, prev>>

\* write_csv(path, headers, rows), one call of generate() per step
write_csv ==
    /\ variant = "csv"
    /\ \E name \in {"users", "products", "orders", "order_items", "reviews"} :
          /\ pc = "write_" \o name
          /\ files' = [files EXCEPT ![name] = File(Payload(name))]
          /\ log' = Append(log, pc)
    /\ pc' = CsvGenerateNext(pc)
    /\ exit' = IF pc' = "idle" THEN Exit("generate", 0, <<"Synthetic CSV datasets written">>)
                               ELSE exit
    /\ UNCHANGED <<variant, seed, counts, report, loaded, rng, now, genvars, dbvars,
                   runs, loads, edits, prev>>

-----------------------------------------------------------------------------
\* a second process of the same generator: same seed, a later clock
Regenerate ==
    /\ pc = "idle" /\ runs = 1 /\ exit.cmd = "generate"
    /\ prev' = Output
    /\ \E t \in NowFrom(now) : now' = t
    /\ rng' = seed
    /\ pc' = "gen_users"
    /\ runs' = runs + 1
    /\ users' = <<>> /\ products' = <<>> /\ orders' = <<>>
    /\ order_items' = <<>> /\ reviews' = <<>>
    /\ log' = <<>>
    /\ exit' = NoExit
    /\ report' = <<>>
    /\ UNCHANGED <<variant, seed, counts, loaded, files, dbvars, loads, edits>>

-----------------------------------------------------------------------------
(* ingest_to_sqlite.py of both directories: the loader *)

\* the primary key column of a table
PrimaryKey(table) ==
    CASE table = "users" -> "user_id"
      [] table = "products" -> "product_id"
      [] table = "orders" -> "order_id"
      [] table = "order_items" -> IF variant = "json" THEN "item_id" ELSE "order_item_id"
      [] OTHER -> "review_id"

\* the values of a column of a table
Column(rows, col) == {rows[i][col] : i \in 1..Len(rows)}

\* the REFERENCES clauses of create_tables: <<column, referenced table>>
ForeignKeys(table) ==
    CASE table = "orders" -> {<<"user_id", "users">>}
      [] table = "order_items" -> {<<"order_id", "orders">>, <<"product_id", "products">>}
      [] table = "reviews" -> {<<"user_id", "users">>, <<"product_id", "products">>}
      [] OTHER -> {}

\* an INSERT of row into table raises sqlite3.IntegrityError: PRIMARY KEY,
\* UNIQUE (users.email) or FOREIGN KEY (PRAGMA foreign_keys = ON)
Violates(table, row, tabs) ==
    \/ row[PrimaryKey(table)] \in Column(tabs[table], PrimaryKey(table))
    \/ table = "users" /\ row.email \in Column(tabs[table], "email")
    \/ \E fk \in ForeignKeys(table) :
          row[fk[1]] \notin Column(tabs[fk[2]], PrimaryKey(fk[2]))

\* cursor.executemany(INSERT ..., rows): row after row, up to the first
\* row that violates a constraint
RECURSIVE executemany(_, _, _)
executemany(table, rows, tabs) ==
    IF rows = <<>> THEN [tables |-> tabs, failed |-> FALSE]
    ELSE IF Violates(table, Head(rows), tabs) THEN [tables |-> tabs, failed |-> TRUE]
    ELSE executemany(table, Tail(rows),
                     [tabs EXCEPT ![table] = Append(@, Head(rows))])

\* a variant of JsonInsertNext that inserts the orders first
JsonInsertNextOrdersFirst(stage) ==
    CASE stage = "read" -> "ins_orders"
      [] stage = "ins_orders" -> "ins_users"
      [] stage = "ins_users" -> "ins_products"
      [] stage = "ins_products" -> "ins_order_items"
      [] stage = "ins_order_items" -> "ins_reviews"
      [] OTHER -> "commit"

\* the order of the statements of insert_all, src/project/scripts
JsonInsertNext(stage) ==
    CASE stage = "read" -> "ins_users"
      [] stage = "ins_users" -> "ins_products"
      [] stage = "ins_products" -> "ins_orders"
      [] stage = "ins_orders" -> "ins_order_items"
      [] stage = "ins_order_items" -> "ins_reviews"
      [] OTHER -> "commit"

\* the order of the statements of insert_all, src/scripts
CsvInsertNext(stage) ==
    CASE stage = "read" -> "ins_users"
      [] stage = "ins_users" -> "ins_products"
      [] stage = "ins_products" -> "ins_orders"
      [] stage = "ins_orders" -> "ins_order_items"
      [] stage = "ins_order_items" -> "ins_reviews"
      [] OTHER -> "commit"

InsertNext(stage) ==
    IF variant = "json" THEN JsonInsertNext(stage) ELSE CsvInsertNext(stage)

\* a variant of load_json that takes a missing file for an empty dataset
load_json_lenient(name) == [missing |-> FALSE, rows |-> files[name].rows]

\* load_json(filename): path.read_text() raises FileNotFoundError
load_json(name) == [missing |-> ~files[name].exists, rows |-> files[name].rows]

\* read_csv(path): raises FileNotFoundError when not path.exists().  The
\* cells are read as text; the column affinities of the schema give the
\* numbers back on INSERT.
read_csv(name) == [missing |-> ~files[name].exists, rows |-> files[name].rows]

ReadDataset(name) == IF variant = "json" THEN load_json(name) ELSE read_csv(name)

\* the files in the order insert_all reads them
FirstMissing ==
    LET missing == {i \in 1..Len(TableNames) : ReadDataset(TableNames[i]).missing}
    IN  IF missing = {} THEN 0 ELSE CHOOSE i \in missing : \A j \in missing : i <= j

\* sqlite3.connect(path) creates the database file when there is none
connect_existing(path) == fs
connect(path) == fs \cup {path}

\* main(): DB_PATH.parent.mkdir(...); sqlite3.connect(DB_PATH)
StartLoad ==
    /\ pc = "idle" /\ loads < MaxLoads
    /\ loads' = loads + 1
    /\ fs' = connect(DEFAULT_DB)
    /\ before' = db
    /\ loaded' = LET again == loads > 0 /\ loaded.files = files
                 IN  [files |-> files, again |-> again,
                      prior |-> IF again THEN loaded.prior ELSE db]
    /\ txn' = db
    /\ datasets' = EmptyTables
    /\ pc' = "create_tables"
    /\ log' = IF DEFAULT_DB \in fs THEN <<"connect">> ELSE <<"create", "connect">>
    /\ exit' = NoExit
    /\ report' = <<>>
    /\ UNCHANGED <<variant, seed, counts, rng, now, genvars, files, db, runs,
                   edits, prev>>

\* create_tables(conn): executescript runs the DROPs and CREATEs in
\* autocommit mode, each statement durable as it completes
create_tables ==
    /\ pc = "create_tables"
    /\ db' = FreshSchema
    /\ txn' = FreshSchema
    /\ pc' = "read"
    /\ log' = Append(log, "create_tables")
    /\ UNCHANGED <<variant, seed, counts, report, loaded, rng, now, genvars, files, fs, datasets,
                   exit, runs, loads, edits, prev, before>>

\* insert_all: the five datasets are read before the first INSERT
insert_all_read ==
    /\ pc = "read"
    /\ IF FirstMissing # 0
       THEN /\ pc' = "raise"
            /\ exit' = Exit("load", 1, <<"FileNotFoundError", TableNames[FirstMissing]>>)
            /\ UNCHANGED datasets
       ELSE /\ pc' = InsertNext("read")
            /\ datasets' = [t \in DOMAIN EmptyTables |-> ReadDataset(t).rows]
            /\ UNCHANGED exit
    /\ log' = Append(log, "read")
    /\ UNCHANGED <<variant, seed, counts, report, loaded, rng, now, genvars, files, fs, db, txn,
                   runs, loads, edits, prev, before>>

\* insert_all: one cursor.executemany per table, inside the implicit transaction
insert_all_insert ==
    /\ \E table \in {"users", "products", "orders", "order_items", "reviews"} :
          /\ pc = "ins_" \o table
          /\ LET r == executemany(table, datasets[table], txn.tables)
             IN  /\ txn' = [txn EXCEPT !.tables = r.tables]
                 /\ IF r.failed
                    THEN /\ pc' = "raise"
                         /\ exit' = Exit("load", 1, <<"IntegrityError", table>>)
                    ELSE /\ pc' = InsertNext(pc)
                         /\ UNCHANGED exit
          /\ log' = Append(log, "insert:" \o table)
    /\ UNCHANGED <<variant, seed, counts, report, loaded, rng, now, genvars, files, fs, db, datasets,
                   runs, loads, edits, prev, before>>

\* a variant of insert_all_commit for a schema that was not dropped and has
\* no keys: the rows the database held stay, the new rows are added
insert_all_commit_keeping ==
    /\ pc = "commit"
    /\ db' = [txn EXCEPT !.tables =
                 [t \in DOMAIN txn.tables |-> before.tables[t] \o txn.tables[t]]]
    /\ pc' = "idle"
    /\ log' = Append(log, "commit")
    /\ exit' = Exit("load", 0, <<"Database ready">>)
    /\ UNCHANGED <<variant, seed, counts, report, loaded, rng, now, genvars, files, fs,
                   txn, datasets, runs, loads, edits, prev, before>>

\* insert_all: conn.commit(), then main() prints and the with block exits
insert_all_commit ==
    /\ pc = "commit"
    /\ db' = txn
    /\ pc' = "idle"
    /\ log' = Append(log, "commit")
    /\ exit' = Exit("load", 0, <<"Database ready">>)
    /\ UNCHANGED <<variant, seed, counts, report, loaded, rng, now, genvars, files, fs, txn, datasets,
                   runs, loads, edits, prev, before>>

\* an exception leaves "with sqlite3.connect(DB_PATH) as conn": rollback,
\* then the process ends with the traceback
Rollback ==
    /\ pc = "raise"
    /\ txn' = db
    /\ pc' = "idle"
    /\ log' = Append(log, "rollback")
    /\ UNCHANGED <<variant, seed, counts, report, loaded, rng, now, genvars, files, fs, db, datasets,
                   exit, runs, loads, edits, prev, before>>

Loader ==
    \/ StartLoad \/ create_tables \/ insert_all_read \/ insert_all_insert
    \/ insert_all_commit \/ Rollback

-----------------------------------------------------------------------------
(* The dataset files are ordinary files: between commands one may be       *)
(* removed, edited so that a row occurs twice, or a product repriced.      *)
(* Only a load reads the files, so changes are followed while a load can   *)
(* still come.                                                             *)

DeleteFile ==
    /\ pc = "idle" /\ edits < MaxEdits /\ loads < MaxLoads
    /\ \E name \in {"users", "products", "orders", "order_items", "reviews"} :
          /\ files[name].exists
          /\ files' = [files EXCEPT ![name] = NoFile]
    /\ edits' = edits + 1
    /\ UNCHANGED <<variant, seed, counts, report, loaded, pc, rng, now, genvars, dbvars, log, exit,
                   runs, loads, prev>>

DuplicateRow ==
    /\ pc = "idle" /\ edits < MaxEdits /\ loads < MaxLoads
    /\ \E name \in {"users", "products", "orders", "order_items", "reviews"} :
          /\ files[name].exists /\ files[name].rows # <<>>
          /\ files' = [files EXCEPT ![name].rows = Append(@, @[1])]
    /\ edits' = edits + 1
    /\ UNCHANGED <<variant, seed, counts, report, loaded, pc, rng, now, genvars, dbvars, log, exit,
                   runs, loads, prev>>

\* the price of the first product is raised by a cent in the products file
RepriceProduct ==
    /\ pc = "idle" /\ edits < MaxEdits /\ loads < MaxLoads
    /\ files["products"].exists
    /\ files["products"].rows # <<>>
    /\ files' = [files EXCEPT !["products"].rows[1].price = @ + 10]
    /\ edits' = edits + 1
    /\ UNCHANGED <<variant, seed, counts, report, loaded, pc, rng, now, genvars, dbvars,
                   log, exit, runs, loads, prev>>

-----------------------------------------------------------------------------
(* run_queries.py of both directories and custom_queries.py *)

\* db_path.exists() in run_queries, run_reports and query
NoCheck(path) == TRUE
run_queries_exists(path) == path \in fs
run_reports_exists(path) == path \in fs
query_exists(path) == path \in fs

\* the database behind a path; only DB_PATH is ever written
Content(path) == IF path = DEFAULT_DB /\ path \in fs THEN db ELSE NoSchema

\* printf('%.2f', x): an amount in mills to the nearest cent
printf2(x) == ((x + 5) \div 10) * 10

\* SUM(oi.quantity * oi.price) over joined rows; 0.00 is printed for no row
RECURSIVE SumLine(_)
SumLine(rows) ==
    IF rows = <<>> THEN 0
    ELSE Head(rows).quantity * Head(rows).price + SumLine(Tail(rows))

\* SUM(column) over rows
RECURSIVE SumField(_, _)
SumField(rows, col) ==
    IF rows = <<>> THEN 0 ELSE Head(rows)[col] + SumField(Tail(rows), col)

\* a variant of OrderBy that sorts by rising rank
RECURSIVE OrderRising(_, _)
OrderRising(rows, rank) ==
    IF rows = {} THEN {<<>>}
    ELSE UNION {{<<r>> \o s : s \in OrderRising(rows \ {r}, rank)} :
                r \in {x \in rows : \A y \in rows : rank[x] <= rank[y]}}

\* ORDER BY rank DESC, rank a function on the rows: every ordering of the
\* rows by falling rank; rows of equal rank may come in any order
RECURSIVE OrderBy(_, _)
OrderBy(rows, rank) ==
    IF rows = {} THEN {<<>>}
    ELSE UNION {{<<r>> \o s : s \in OrderBy(rows \ {r}, rank)} :
                r \in {x \in rows : \A y \in rows : rank[x] >= rank[y]}}

\* LIMIT n
Limit(rows, n) == SubSeq(rows, 1, IF Len(rows) < n THEN Len(rows) ELSE n)

\* order_items AS oi JOIN products ... JOIN orders ...: the items whose
\* product and order rows exist
ItemJoin(tabs) ==
    SelectSeq(tabs["order_items"],
              LAMBDA oi : /\ oi.product_id \in Column(tabs["products"], "product_id")
                          /\ oi.order_id \in Column(tabs["orders"], "order_id"))

\* product_revenue_sql: one row per product that has a joined item
product_revenue_sql(tabs) ==
    LET joined == ItemJoin(tabs)
        of(p) == SelectSeq(joined, LAMBDA oi : oi.product_id = p.product_id)
        groups == {p \in {tabs["products"][i] : i \in 1..Len(tabs["products"])} :
                      of(p) # <<>>}
        rows == {[product_id |-> p.product_id, product_name |-> p.name,
                  category |-> p.category,
                  total_revenue |-> printf2(SumLine(of(p))),
                  orders_involved |-> Cardinality(Column(of(p), "order_id"))] :
                 p \in groups}
    IN  OrderBy(rows, [r \in rows |-> r.total_revenue])

\* a variant of top_customers_sql that LEFT JOINs the order items: every
\* order of a user is counted, with or without items
top_customers_sql_left(tabs) ==
    LET joined == ItemJoin(tabs)
        placed(u) == {tabs["orders"][i].order_id : i \in
                         {k \in 1..Len(tabs["orders"]) :
                             tabs["orders"][k].user_id = u.user_id}}
        of(u) == SelectSeq(joined, LAMBDA oi : oi.order_id \in placed(u))
        groups == {u \in {tabs["users"][i] : i \in 1..Len(tabs["users"])} :
                      placed(u) # {}}
        rows == {[user_id |-> u.user_id, name |-> u.name, email |-> u.email,
                  total_spent |-> printf2(SumLine(of(u))),
                  orders_placed |-> Cardinality(placed(u))] :
                 u \in groups}
    IN  {Limit(s, 10) : s \in OrderBy(rows, [r \in rows |-> r.total_spent])}

\* top_customers_sql: one row per user that has an order with a joined item
top_customers_sql(tabs) ==
    LET joined == ItemJoin(tabs)
        placed(u) == {tabs["orders"][i].order_id : i \in
                         {k \in 1..Len(tabs["orders"]) :
                             tabs["orders"][k].user_id = u.user_id}}
        of(u) == SelectSeq(joined, LAMBDA oi : oi.order_id \in placed(u))
        groups == {u \in {tabs["users"][i] : i \in 1..Len(tabs["users"])} :
                      of(u) # <<>>}
        rows == {[user_id |-> u.user_id, name |-> u.name, email |-> u.email,
                  total_spent |-> printf2(SumLine(of(u))),
                  orders_placed |-> Cardinality(Column(of(u), "order_id"))] :
                 u \in groups}
    IN  {Limit(s, 10) : s \in OrderBy(rows, [r \in rows |-> r.total_spent])}

\* avg_rating_sql: one row per reviewed product; AVG(r.rating) to two decimals
avg_rating_sql(tabs) ==
    LET of(p) == SelectSeq(tabs["reviews"], LAMBDA r : r.product_id = p.product_id)
        groups == {p \in {tabs["products"][i] : i \in 1..Len(tabs["products"])} :
                      of(p) # <<>>}
        rows == {[product_id |-> p.product_id, product_name |-> p.name,
                  avg_rating |-> printf2((1000 * SumField(of(p), "rating"))
                                            \div Len(of(p))),
                  review_count |-> Len(of(p))] : p \in groups}
        \* ORDER BY avg_rating DESC, review_count DESC as one rank
    IN  OrderBy(rows, [r \in rows |->
                   r.avg_rating * (Len(tabs["reviews"]) + 1) + r.review_count])

\* the tables run_queries prints, in order
RunQueriesOutput(tabs) ==
    {<<[title |-> "Total revenue per product", rows |-> a],
       [title |-> "Top 10 customers by spending", rows |-> b],
       [title |-> "Average rating per product", rows |-> c]>> :
     a \in product_revenue_sql(tabs), b \in top_customers_sql(tabs),
     c \in avg_rating_sql(tabs)}

\* all_customers, all_products: the table ordered by its key
all_customers(tabs) ==
    LET rows == {tabs["users"][i] : i \in 1..Len(tabs["users"])}
    IN  OrderBy(rows, [r \in rows |-> 0 - r.user_id])
all_products(tabs) ==
    LET rows == {[tabs["products"][i] EXCEPT !.price = printf2(@)] :
                    i \in 1..Len(tabs["products"])}
    IN  OrderBy(rows, [r \in rows |-> 0 - r.product_id])

\* all_orders: ORDER BY order_date
all_orders(tabs) ==
    LET rows == {[order_id |-> o.order_id, user_id |-> o.user_id,
                  order_date |-> o.order_date, status |-> o.status,
                  total_amount |-> printf2(o.total_amount)] :
                 o \in {tabs["orders"][i] : i \in 1..Len(tabs["orders"])}}
    IN  OrderBy(rows, [r \in rows |-> 0 - r.order_date])

\* total_sales: SELECT printf('%.2f', SUM(line_total)) FROM order_items
total_sales(tabs) == printf2(SumField(tabs["order_items"], "line_total"))

\* top_product: units sold and revenue per product that has an item
top_product(tabs) ==
    LET of(p) == SelectSeq(tabs["order_items"],
                           LAMBDA oi : oi.product_id = p.product_id)
        groups == {p \in {tabs["products"][i] : i \in 1..Len(tabs["products"])} :
                      of(p) # <<>>}
        rows == {[product_id |-> p.product_id, product_name |-> p.name,
                  units_sold |-> SumField(of(p), "quantity"),
                  revenue |-> printf2(SumField(of(p), "line_total"))] : p \in groups}
        \* ORDER BY units_sold DESC, revenue DESC as one rank
    IN  {Limit(s, 5) : s \in OrderBy(rows, [r \in rows |->
                   r.units_sold * (total_sales(tabs) + 10) + r.revenue])}

\* the tables run_reports prints, in order
RunReportsOutput(tabs) ==
    {<<[title |-> "All customers", rows |-> a],
       [title |-> "All products", rows |-> b],
       [title |-> "All orders", rows |-> c],
       [title |-> "Total sales", rows |-> <<[total_sales |-> total_sales(tabs)]>>],
       [title |-> "Top selling products", rows |-> d]>> :
     a \in all_customers(tabs), b \in all_products(tabs), c \in all_orders(tabs),
     d \in top_product(tabs)}

\* the second statement main() of custom_queries passes to query(sql):
\* SUM(oi.quantity * oi.unit_price) per product, not rounded
custom_revenue(tabs) ==
    LET of(p) == SelectSeq(tabs["order_items"],
                           LAMBDA oi : oi.product_id = p.product_id)
        groups == {p \in {tabs["products"][i] : i \in 1..Len(tabs["products"])} :
                      of(p) # <<>>}
        line(oi) == [quantity |-> oi.quantity, price |-> oi.unit_price]
        rows == {[name |-> p.name,
                  total_revenue |-> SumLine([i \in 1..Len(of(p)) |-> line(of(p)[i])])] :
                 p \in groups}
    IN  OrderBy(rows, [r \in rows |-> r.total_revenue])

\* what query(sql) returns for that statement
QueryOutput(tabs) ==
    {<<[title |-> "Total revenue per product", rows |-> a]>> : a \in custom_revenue(tabs)}

\* what the three commands share: SystemExit(f"Database not found: {path}")
\* when the path does not exist, else sqlite3.connect, the statements, and
\* the fetched rows printed (outputs: the possible row orders)
QueryCommand(cmd, path, exists, statements, outputs) ==
    /\ pc = "idle"
    /\ IF ~exists
       THEN /\ exit' = QueryExit(cmd, path, 1, <<"Database not found: ", path>>)
            /\ log' = <<>>
            /\ report' = <<>>
            /\ UNCHANGED fs
       ELSE /\ fs' = fs \cup {path}
            /\ IF Content(path).schema
               THEN /\ log' = <<"connect">> \o statements
                    /\ exit' = QueryExit(cmd, path, 0, <<>>)
                    /\ \E r \in outputs : report' = r
               ELSE /\ log' = <<"connect">>
                    /\ exit' = QueryExit(cmd, path, 1, <<"OperationalError: no such table">>)
                    /\ report' = <<>>
    /\ UNCHANGED <<variant, seed, counts, loaded, pc, rng, now, genvars, files, db, txn,
                   datasets, runs, loads, edits, prev, before>>

\* src/project/scripts/run_queries.py, --db path
run_queries ==
    /\ variant = "json"
    /\ \E path \in DbPaths :
          QueryCommand("run_queries", path, run_queries_exists(path),
                       <<"product_revenue_sql", "top_customers_sql", "avg_rating_sql">>,
                       RunQueriesOutput(Content(path).tables))

\* src/scripts/run_queries.py, --db path
run_reports ==
    /\ variant = "csv"
    /\ \E path \in DbPaths :
          QueryCommand("run_reports", path, run_reports_exists(path),
                       <<"all_customers", "all_products", "all_orders", "total_sales",
                         "top_product">>,
                       RunReportsOutput(Content(path).tables))

\* src/scripts/custom_queries.py: query(sql) on the fixed DB_PATH
query ==
    /\ variant = "csv"
    /\ QueryCommand("query", DEFAULT_DB, query_exists(DEFAULT_DB), <<"sql">>,
                    QueryOutput(Content(DEFAULT_DB).tables))

Queries == run_queries \/ run_reports \/ query

Generator ==
    \/ StartJson \/ generate_users \/ generate_products \/ generate_orders
    \/ generate_order_items \/ UpdateOrderTotals \/ generate_reviews \/ write_json
    \/ StartCsv \/ csv_users \/ csv_products \/ csv_orders \/ csv_order_items
    \/ csv_totals \/ csv_reviews \/ write_csv

Init ==
    /\ variant \in {"json", "csv"}
    /\ seed \in 0..MaxSeed
    /\ counts \in [users : {0, NumUsers}, products : {0, NumProducts},
                   orders : {0, NumOrders}, order_items : {NumItems},
                   reviews : {NumReviews}]
    /\ variant = "csv" => counts = [users |-> NumUsers, products |-> NumProducts,
                                    orders |-> NumOrders, order_items |-> NumItems,
                                    reviews |-> NumReviews]
    /\ pc = "idle"
    /\ rng = seed
    /\ now = OrderStart + 1
    /\ users = <<>> /\ products = <<>> /\ orders = <<>>
    /\ order_items = <<>> /\ reviews = <<>>
    /\ files = NoFiles
    /\ fs = {}
    /\ db = NoSchema /\ txn = NoSchema /\ before = NoSchema
    /\ datasets = EmptyTables
    /\ log = <<>>
    /\ exit = NoExit
    /\ runs = 0 /\ loads = 0 /\ edits = 0
    /\ prev = NoOutput
    /\ loaded = NotLoaded
    /\ report = <<>>

Next == Generator \/ Loader \/ DeleteFile \/ DuplicateRow \/ RepriceProduct \/ Queries

Spec == Init /\ [][Next]_vars

-----------------------------------------------------------------------------
(* The loader run again and again over a database that may already exist:  *)
(* none, an empty schema, or the rows an earlier, smaller dataset left.    *)

\* the five tables after a load of a dataset with one row per file
EarlierTables(v) ==
    [users |-> IF v = "json"
               THEN <<[user_id |-> 1, name |-> <<"Kai", "Silva">>,
                       email |-> <<"Kai", "Silva", 1, "@example.com">>,
                       location |-> <<"Berlin", "Germany">>,
                       signup_date |-> UserStart]>>
               ELSE <<[user_id |-> 1, first_name |-> "Kai", last_name |-> "Kim",
                       email |-> <<"Kai", "Kim", 1, "@example.com">>,
                       signup_date |-> UserStart, country |-> "Germany"]>>,
     products |-> <<[product_id |-> 1, name |-> <<"Eco", "Tent">>,
                     category |-> "Outdoors", price |-> 10000, stock |-> 25]>>,
     orders |-> IF v = "json"
                THEN <<[order_id |-> 1, user_id |-> 1, order_date |-> OrderStart,
                        total_amount |-> 20000]>>
                ELSE <<[order_id |-> 1, user_id |-> 1, order_date |-> OrderStart,
                        status |-> "shipped",
                        shipping_address |-> <<100, "Oak", "St">>,
                        total_amount |-> 20000]>>,
     order_items |-> IF v = "json"
                     THEN <<[item_id |-> 1, order_id |-> 1, product_id |-> 1,
                             quantity |-> 2, price |-> 10000]>>
                     ELSE <<[order_item_id |-> 1, order_id |-> 1, product_id |-> 1,
                             quantity |-> 2, unit_price |-> 10000,
                             line_total |-> 20000]>>,
     reviews |-> <<[review_id |-> 1, user_id |-> 1, product_id |-> 1, rating |-> 5,
                    comment |-> "Exceeded expectations"]>>]

InitReload ==
    /\ variant \in {"json", "csv"}
    /\ seed \in {0, MaxSeed}
    /\ counts = [users |-> NumUsers, products |-> NumProducts, orders |-> NumOrders,
                 order_items |-> NumItems, reviews |-> NumReviews]
    /\ pc = "idle"
    /\ rng = seed
    /\ now = OrderStart + 1
    /\ users = <<>> /\ products = <<>> /\ orders = <<>>
    /\ order_items = <<>> /\ reviews = <<>>
    /\ files = NoFiles
    /\ \E d \in {NoSchema, FreshSchema,
                  [schema |-> TRUE, tables |-> EarlierTables(variant)]} :
          /\ db = d /\ txn = d /\ before = d
          /\ fs = IF d = NoSchema THEN {} ELSE {DEFAULT_DB}
          /\ loaded = [NotLoaded EXCEPT !.prior = d]
    /\ datasets = EmptyTables
    /\ log = <<>>
    /\ exit = NoExit
    /\ runs = 0 /\ loads = 0 /\ edits = 0
    /\ prev = NoOutput
    /\ report = <<>>

NextReload == Generator \/ Loader \/ DeleteFile \/ DuplicateRow \/ RepriceProduct

SpecReload == InitReload /\ [][NextReload]_vars

-----------------------------------------------------------------------------
(* The end-to-end scenario: the JSON generator called with 5 users,        *)
(* 3 products, 10 orders, 20 order items and 5 reviews, the loader, and    *)
(* run_queries.  The seeds are the one of the source and one whose stream  *)
(* draws only two of the three products for the twenty order items.        *)

E2ECounts == [users |-> 5, products |-> 3, orders |-> 10, order_items |-> 20,
              reviews |-> 5]
E2ESeeds == {2025, 1718}

InitE2E ==
    /\ variant = "json"
    /\ seed \in E2ESeeds
    /\ counts = E2ECounts
    /\ pc = "idle"
    /\ rng = seed
    /\ now = OrderStart + 1
    /\ users = <<>> /\ products = <<>> /\ orders = <<>>
    /\ order_items = <<>> /\ reviews = <<>>
    /\ files = NoFiles
    /\ fs = {}
    /\ db = NoSchema /\ txn = NoSchema /\ before = NoSchema
    /\ datasets = EmptyTables
    /\ log = <<>>
    /\ exit = NoExit
    /\ runs = 0 /\ loads = 0 /\ edits = 0
    /\ prev = NoOutput
    /\ loaded = NotLoaded
    /\ report = <<>>

NextE2E ==
    \/ StartJson \/ generate_users \/ generate_products \/ generate_orders
    \/ generate_order_items \/ UpdateOrderTotals \/ generate_reviews \/ write_json
    \/ Loader \/ run_queries

SpecE2E == InitE2E /\ [][NextE2E]_vars

NextRepro == Generator \/ Regenerate

-----------------------------------------------------------------------------
(* update_order_totals as a function of its two arguments, applied again   *)
(* and again to collections drawn from small sets.  Order id 3 belongs to  *)
(* no order when there are at most two.                                    *)

OrderInputs ==
    UNION {[1..n -> [order_id : 1..2, user_id : {1}, order_date : {OrderStart},
                     total_amount : {0, 2500}]] : n \in 0..MaxTotalsLen}
ItemInputs ==
    UNION {[1..n -> [order_id : 1..3, product_id : {1}, quantity : {1, 3},
                     price : {5, 1250}]] : n \in 0..MaxTotalsLen}

\* the item ids are the positions, as generate_order_items assigns them
WithItemIds(items) ==
    [i \in 1..Len(items) |->
        [item_id |-> i, order_id |-> items[i].order_id,
         product_id |-> items[i].product_id, quantity |-> items[i].quantity,
         price |-> items[i].price]]

InitTotals ==
    /\ variant = "json"
    /\ seed = 0 /\ rng = 0 /\ now = OrderStart + 1
    /\ counts = [users |-> 0, products |-> 0, orders |-> 0, order_items |-> 0,
                 reviews |-> 0]
    /\ pc = "update_order_totals"
    /\ users = <<>> /\ products = <<>> /\ reviews = <<>>
    /\ orders \in OrderInputs
    /\ \E items \in ItemInputs : order_items = WithItemIds(items)
    /\ files = NoFiles
    /\ fs = {}
    /\ db = NoSchema /\ txn = NoSchema /\ before = NoSchema
    /\ datasets = EmptyTables
    /\ log = <<>>
    /\ exit = NoExit
    /\ runs = 0 /\ loads = 0 /\ edits = 0
    /\ prev = [input |-> orders, first |-> <<>>]
    /\ loaded = NotLoaded
    /\ report = <<>>

\* one more call update_order_totals(orders, order_items); prev.first keeps
\* the orders as the first call left them
RerunTotals ==
    /\ pc = "update_order_totals" /\ runs < MaxReruns
    /\ orders' = update_order_totals(orders, order_items)
    /\ runs' = runs + 1
    /\ prev' = IF runs = 0 THEN [prev EXCEPT !.first = orders'] ELSE prev
    /\ exit' = IF KeyError(orders, order_items)
               THEN Exit("update_order_totals", 1, <<"KeyError">>)
               ELSE Exit("update_order_totals", 0, <<>>)
    /\ log' = Append(log, "totals")
    /\ UNCHANGED <<variant, seed, counts, report, loaded, pc, rng, now, users, products, order_items,
                   reviews, files, dbvars, loads, edits>>

NextTotals == RerunTotals

SpecTotals == InitTotals /\ [][NextTotals]_vars

SpecRepro == Init /\ [][NextRepro]_vars

-----------------------------------------------------------------------------
(* Properties *)

GenStages == {"gen_users", "gen_products", "gen_orders", "gen_items", "totals",
              "gen_reviews", "write_users", "write_products", "write_orders",
              "write_order_items", "write_reviews"}
WriteStages == {"write_users", "write_products", "write_orders",
                "write_order_items", "write_reviews"}

\* the generator process has just ended normally
GenFinished == pc = "idle" /\ exit.cmd = "generate" /\ exit.status = 0

\* the unit price field of an order item
UnitPrice(item) == IF variant = "json" THEN item.price ELSE item.unit_price

\* sum of quantity x unit price over the first n items that belong to order oid
RECURSIVE LineSum(_, _, _)
LineSum(items, oid, n) ==
    IF n = 0 THEN 0
    ELSE LineSum(items, oid, n - 1)
         + (IF items[n].order_id = oid
            THEN items[n].quantity * UnitPrice(items[n]) ELSE 0)

ItemsOf(items, oid) == {i \in 1..Len(items) : items[i].order_id = oid}

\* C1: after generation finishes, every order's total_amount is the sum of
\* quantity x unit_price over exactly the items of that order, rounded to two
\* decimals; an order without items has total 0.00.
C1_TotalMatchesItems ==
    GenFinished =>
        \A i \in 1..Len(orders) :
            /\ orders[i].total_amount
                 = round2(LineSum(order_items, orders[i].order_id, Len(order_items)))
            /\ ItemsOf(order_items, orders[i].order_id) = {}
                 => orders[i].total_amount = 0

\* an order with several items and an order with none, after a finished run
C1_Witness ==
    /\ GenFinished
    /\ \E i \in 1..Len(orders) :
          /\ Cardinality(ItemsOf(order_items, orders[i].order_id)) >= 2
          /\ orders[i].total_amount > 0
    /\ \E i \in 1..Len(orders) : ItemsOf(order_items, orders[i].order_id) = {}

Ids(rows, col) == {rows[i][col] : i \in 1..Len(rows)}

\* C2: every foreign key of the generated collections is the identity of an
\* entity of the referenced collection, at every point of the generation.
C2_ReferentialClosure ==
    /\ \A i \in 1..Len(orders) : orders[i].user_id \in Ids(users, "user_id")
    /\ \A i \in 1..Len(order_items) :
          /\ order_items[i].order_id \in Ids(orders, "order_id")
          /\ order_items[i].product_id \in Ids(products, "product_id")
    /\ \A i \in 1..Len(reviews) :
          /\ reviews[i].user_id \in Ids(users, "user_id")
          /\ reviews[i].product_id \in Ids(products, "product_id")

\* a finished run whose items and reviews use the last user, product and order
C2_Witness ==
    /\ GenFinished
    /\ Len(order_items) = NumItems /\ Len(reviews) = NumReviews
    /\ \E i \in 1..Len(orders) : orders[i].user_id = NumUsers
    /\ \E i \in 1..Len(order_items) : order_items[i].order_id = NumOrders
    /\ \E i \in 1..Len(reviews) : reviews[i].product_id = NumProducts

\* positions of an event in the log
At(event) == {i \in 1..Len(log) : log[i] = event}
WriteEvents == {i \in 1..Len(log) : log[i] \in WriteStages}

\* C10: total aggregation starts only after the last order item was generated
\* and completes before any dataset file is written; the orders file holds
\* totals computed from the final order-item set.
C10_TotalsBetweenItemsAndWrites ==
    (pc \in GenStages \/ (pc = "idle" /\ exit.cmd = "generate")) =>
        /\ \A t \in At("totals") : \A g \in At("gen_items") : g < t
        /\ \A w \in WriteEvents : \E t \in At("totals") : t < w
        /\ At("totals") # {} => Len(order_items) = counts.order_items
        /\ (files["orders"].exists /\ edits = 0) =>
              /\ Len(files["orders"].rows) = Len(orders)
              /\ \A i \in 1..Len(orders) :
                    files["orders"].rows[i].total_amount
                      = round2(LineSum(order_items, orders[i].order_id,
                                       Len(order_items)))

\* a finished run that generated items, aggregated, and wrote an order with a total
C10_Witness ==
    /\ GenFinished /\ edits = 0
    /\ At("gen_items") # {} /\ At("totals") # {} /\ At("write_orders") # {}
    /\ \E i \in 1..Len(files["orders"].rows) : files["orders"].rows[i].total_amount > 0

\* C3: two generation runs with the same seed and the same counts produce
\* identical collections in every field, whatever the wall-clock time of each
\* run.  prev holds the collections of the first run.
C3_SameSeedSameOutput ==
    (runs = 2 /\ GenFinished) => Output = prev

LoadStages == {"create_tables", "read", "ins_users", "ins_products", "ins_orders",
               "ins_order_items", "ins_reviews", "commit", "raise"}
InsertStages == {"ins_users", "ins_products", "ins_orders", "ins_order_items",
                 "ins_reviews"}
InsertEvents == {i \in 1..Len(log) : log[i] \in {"insert:users", "insert:products",
                    "insert:orders", "insert:order_items", "insert:reviews"}}

\* a load is running, or has just ended
LoadEnded == pc = "idle" /\ exit.cmd = "load"
InLoad == pc \in LoadStages \/ LoadEnded

\* the exception class the last command ended with, "" when none
ExitError == IF exit.msg = <<>> THEN "" ELSE exit.msg[1]

\* the durable database holds rows in one table and none in another table
\* whose dataset has rows
PartialRows ==
    \E t1, t2 \in DOMAIN EmptyTables :
        db.tables[t1] # <<>> /\ db.tables[t2] = <<>> /\ datasets[t2] # <<>>

\* C4: a load invocation is all-or-nothing: the rows of all five tables are
\* committed together, or after a failure nothing of the invocation is durable
\* (the durable rows are those from before the invocation); no durable state
\* holds the rows of only some tables.
C4_LoadAllOrNothing ==
    /\ (LoadEnded /\ exit.status # 0) => db.tables = before.tables
    /\ ~PartialRows

MissingFile == \E name \in DOMAIN files : ~files[name].exists

\* C5: with one of the five dataset files missing at load time, the load fails
\* before any INSERT is executed and no row of the other datasets is inserted
\* or committed.
C5_MissingFileFailsFast ==
    /\ (pc \in LoadStages /\ MissingFile) =>
          /\ pc \in {"create_tables", "read", "raise"}
          /\ InsertEvents = {}
          /\ txn.tables = db.tables
          /\ pc = "raise" => /\ exit.status = 1
                             /\ ExitError = "FileNotFoundError"
                             /\ db.tables = EmptyTables
    /\ (LoadEnded /\ ExitError = "FileNotFoundError") =>
          /\ exit.status = 1
          /\ InsertEvents = {}
          /\ db.tables = EmptyTables /\ txn.tables = EmptyTables

\* the load has raised for exactly one missing file, the other four having rows
C5_Witness ==
    /\ pc = "raise"
    /\ \E name \in DOMAIN files :
          /\ ~files[name].exists
          /\ \A other \in DOMAIN files \ {name} :
                files[other].exists /\ files[other].rows # <<>>

\* every foreign key of the tables refers to a row of the referenced table
TablesClosed(tabs) ==
    \A t \in DOMAIN tabs : \A fk \in ForeignKeys(t) : \A i \in 1..Len(tabs[t]) :
        tabs[t][i][fk[1]] \in Column(tabs[fk[2]], PrimaryKey(fk[2]))

\* no primary key and no email occurs twice
KeysUnique(tabs) ==
    /\ \A t \in DOMAIN tabs : \A i, j \in 1..Len(tabs[t]) :
          tabs[t][i][PrimaryKey(t)] = tabs[t][j][PrimaryKey(t)] => i = j
    /\ \A i, j \in 1..Len(tabs["users"]) :
          tabs["users"][i].email = tabs["users"][j].email => i = j

\* C6: in every load the inserts into users and products precede the insert into
\* orders, which precedes those into order_items and reviews; so every row
\* inserted so far references rows already present, and a referentially closed
\* dataset meets no foreign-key error on the way.
C6_DependencyOrder ==
    InLoad =>
        /\ \A o \in At("insert:orders") :
              /\ \E u \in At("insert:users") : u < o
              /\ \E q \in At("insert:products") : q < o
        /\ \A c \in At("insert:order_items") \cup At("insert:reviews") :
              \E o \in At("insert:orders") : o < c
        /\ TablesClosed(txn.tables)
        /\ (TablesClosed(datasets) /\ KeysUnique(datasets)) => ExitError # "IntegrityError"

\* all five tables inserted and not yet committed
C6_Witness ==
    /\ pc = "commit"
    /\ \A t \in DOMAIN EmptyTables : txn.tables[t] # <<>> /\ db.tables[t] = <<>>
    /\ Cardinality(InsertEvents) = 5

QueryCommands == {"run_queries", "run_reports", "query"}

\* C7: a query command whose database file does not exist ends with a nonzero
\* status and a message that contains the attempted path, without opening a
\* connection, creating the file or executing a statement.
C7_QueryMissingDatabase ==
    [][(exit'.cmd \in QueryCommands /\ exit'.arg \notin fs) =>
          /\ exit'.status # 0
          /\ exit'.msg = <<"Database not found: ", exit'.arg>>
          /\ log' = <<>>
          /\ fs' = fs
          /\ db' = db]_vars

\* custom_queries has ended on the missing default database
C7_Witness ==
    /\ exit.cmd = "query" /\ exit.arg = DEFAULT_DB /\ DEFAULT_DB \notin fs
    /\ exit.status = 1 /\ log = <<>>

\* the running or last load found no database file when it started
StartedAbsent == InLoad /\ log # <<>> /\ log[1] = "create"

\* C8 as stated: with the database file absent at load time the load command
\* exits with a nonzero status and a message.
C8_LoadExitsNonzero ==
    (LoadEnded /\ StartedAbsent) => (exit.status # 0 /\ exit.msg # <<>>)

\* C8 amended: with the database file absent the load command creates it,
\* creates the schema and loads; it exits zero with all datasets committed,
\* and nonzero only for a missing dataset file or a constraint violation.
C8_LoadCreatesDatabase ==
    StartedAbsent =>
        /\ DEFAULT_DB \in fs
        /\ ExitError # "Database not found: "
        /\ LoadEnded =>
              /\ db.schema
              /\ exit.status # 0 => ExitError \in {"FileNotFoundError", "IntegrityError"}
              /\ exit.status = 0 =>
                    /\ log[Len(log)] = "commit"
                    /\ \A t \in DOMAIN EmptyTables : db.tables[t] = datasets[t]

\* a load that found no database file has ended with status 0 and rows committed
C8_Witness ==
    /\ LoadEnded /\ StartedAbsent
    /\ exit.status = 0
    /\ db.tables["users"] # <<>> /\ db.tables["orders"] # <<>>

\* C9: update_order_totals is idempotent: called again on the same items it
\* leaves every order's total_amount as the first call left it, whatever the
\* totals were before the first call; after a call that returned, an order
\* without items has total 0.00.
C9_TotalsIdempotent ==
    (pc = "update_order_totals" /\ runs >= 1) =>
        /\ orders = prev.first
        /\ exit.status = 0 =>
              \A i \in 1..Len(orders) :
                  ItemsOf(order_items, orders[i].order_id) = {}
                      => orders[i].total_amount = 0

\* after a second call: an order that came with a stale total and has items,
\* and an order that came with a stale total and has none
C9_Witness ==
    /\ pc = "update_order_totals" /\ runs >= 2 /\ exit.status = 0
    /\ \E i \in 1..Len(orders) :
          /\ prev.input[i].total_amount # 0
          /\ ItemsOf(order_items, orders[i].order_id) # {}
          /\ orders[i].total_amount \notin {0, prev.input[i].total_amount}
    /\ \E i \in 1..Len(orders) :
          /\ prev.input[i].total_amount # 0
          /\ ItemsOf(order_items, orders[i].order_id) = {}

\* the price the generator gave the product with this identity
GeneratedPrice(pid) ==
    (CHOOSE p \in {products[i] : i \in 1..Len(products)} : p.product_id = pid).price

\* the order item has a quantity from 1 to 5 and the generated price of its product
CopiedPrice(item) ==
    /\ item.quantity > 0 /\ item.quantity <= 5
    /\ UnitPrice(item) = GeneratedPrice(item.product_id)

\* C11: every generated order item has 0 < quantity <= 5 and a unit price equal
\* to the price its product had when the item was created; a later change of
\* the product's price leaves the unit price of every existing item, in the
\* generator, the dataset file and the database, as it was.
C11_UnitPriceIsCopy ==
    /\ \A i \in 1..Len(order_items) : CopiedPrice(order_items[i])
    /\ \A i \in 1..Len(files["order_items"].rows) :
          CopiedPrice(files["order_items"].rows[i])
    /\ \A i \in 1..Len(txn.tables["order_items"]) :
          CopiedPrice(txn.tables["order_items"][i])
    /\ \A i \in 1..Len(db.tables["order_items"]) :
          CopiedPrice(db.tables["order_items"][i])

\* a committed database in which a product was repriced after generation and
\* an item of that product keeps the generated price; quantities 1 and 5 occur
C11_Witness ==
    /\ LoadEnded /\ exit.status = 0
    /\ \E k \in 1..Len(db.tables["products"]) :
          /\ db.tables["products"][k].price # GeneratedPrice(db.tables["products"][k].product_id)
          /\ \E i \in 1..Len(db.tables["order_items"]) :
                /\ db.tables["order_items"][i].product_id = db.tables["products"][k].product_id
                /\ UnitPrice(db.tables["order_items"][i]) # db.tables["products"][k].price
    /\ \E i \in 1..Len(order_items) : order_items[i].quantity = 5
    /\ \E i \in 1..Len(order_items) : order_items[i].quantity = 1

\* the number of rows in each of the five tables
RowCounts(d) == [t \in DOMAIN d.tables |-> Len(d.tables[t])]

\* the total-revenue aggregate the reports compute from the order items
TotalRevenue(d) ==
    IF variant = "csv" THEN total_sales(d.tables)
    ELSE printf2(SumLine(ItemJoin(d.tables)))

\* C12: a load that finds the dataset files as the load before it found them
\* ends with the same row count in each of the five tables and the same
\* total revenue as that load did, whatever the database held before the
\* first of the two.
C12_LoadIdempotent ==
    (LoadEnded /\ loaded.again) =>
        /\ RowCounts(db) = RowCounts(before)
        /\ TotalRevenue(db) = TotalRevenue(before)

\* a second successful load of the same files, the first of which replaced
\* a database that held other rows
C12_Witness ==
    /\ LoadEnded /\ loaded.again /\ exit.status = 0
    /\ \A t \in DOMAIN db.tables : db.tables[t] # <<>>
    /\ TotalRevenue(db) > 0
    /\ loaded.prior.tables["products"] # <<>>
    /\ loaded.prior.tables # db.tables

\* the last command was run_queries on the loaded database, and it printed
RanQueries ==
    /\ pc = "idle" /\ exit.cmd = "run_queries" /\ exit.status = 0
    /\ exit.arg = DEFAULT_DB

\* the rows of a table as a set
Rows(tabs, t) == {tabs[t][i] : i \in 1..Len(tabs[t])}

\* the orders of the table that no order item names
Itemless(tabs) ==
    {o \in Rows(tabs, "orders") :
        \A oi \in Rows(tabs, "order_items") : oi.order_id # o.order_id}

\* the sum of total_amount over a set of orders
RECURSIVE SumTotals(_)
SumTotals(os) ==
    IF os = {} THEN 0
    ELSE LET o == CHOOSE x \in os : TRUE IN o.total_amount + SumTotals(os \ {o})

\* the printed rows of the n-th report
ReportRows(n) == {report[n].rows[i] : i \in 1..Len(report[n].rows)}

\* C13: an order without order items is in the orders table with total 0.00;
\* the revenue-per-product and top-customers reports count it in no
\* orders_involved or orders_placed figure and no revenue or spend sum holds
\* anything of it: they are the reports of the database without such orders.
C13_ItemlessOrders ==
    /\ \A o \in Itemless(db.tables) : o.total_amount = 0
    /\ RanQueries =>
          LET tabs == db.tables
              itemless == {o.order_id : o \in Itemless(tabs)}
              pruned == [tabs EXCEPT !["orders"] =
                            SelectSeq(@, LAMBDA o : o.order_id \notin itemless)]
          IN  /\ report[1].rows \in product_revenue_sql(pruned)
              /\ report[2].rows \in top_customers_sql(pruned)
              /\ \A r \in ReportRows(1) :
                    r.orders_involved =
                        Cardinality({oi.order_id : oi \in
                            {x \in Rows(tabs, "order_items") :
                                x.product_id = r.product_id}} \ itemless)
              /\ \A r \in ReportRows(2) :
                    LET mine == {o \in Rows(tabs, "orders") : o.user_id = r.user_id}
                    IN  /\ r.orders_placed = Cardinality(mine \ Itemless(tabs))
                        /\ r.total_spent = SumTotals(mine \ Itemless(tabs))
              /\ \A u \in Rows(tabs, "users") :
                    (\A o \in Rows(tabs, "orders") :
                         o.user_id = u.user_id => o \in Itemless(tabs))
                      => \A r \in ReportRows(2) : r.user_id # u.user_id

\* the reports of a loaded database in which a customer has an order with
\* items and an order without
C13_Witness ==
    /\ RanQueries
    /\ ReportRows(1) # {}
    /\ \E r \in ReportRows(2) :
          /\ r.total_spent > 0
          /\ \E o \in Itemless(db.tables) : o.user_id = r.user_id

\* sum of quantity x unit price over the first n items of product pid
RECURSIVE ProductSum(_, _, _)
ProductSum(items, pid, n) ==
    IF n = 0 THEN 0
    ELSE ProductSum(items, pid, n - 1)
         + (IF items[n].product_id = pid
            THEN items[n].quantity * UnitPrice(items[n]) ELSE 0)

\* run_queries has printed the reports of a database that holds the twenty
\* order items of the scenario
RanScenario == RanQueries /\ Len(db.tables["order_items"]) = 20

\* each row's revenue is the sum of the line totals of its product, and the
\* rows come by falling revenue
RevenueRowsRight ==
    LET rows == report[1].rows
        items == db.tables["order_items"]
    IN  /\ \A i \in 1..Len(rows) :
              rows[i].total_revenue = ProductSum(items, rows[i].product_id, Len(items))
        /\ \A i, j \in 1..Len(rows) :
              i < j => rows[i].total_revenue >= rows[j].total_revenue

\* C14 as stated: the revenue-per-product report of the scenario has exactly
\* 3 rows, one per generated product, each with the summed line totals of its
\* product, sorted by falling revenue.
C14_ExactlyThreeRows ==
    RanScenario =>
        /\ Len(report[1].rows) = 3
        /\ {report[1].rows[i].product_id : i \in 1..Len(report[1].rows)}
              = {products[i].product_id : i \in 1..Len(products)}
        /\ RevenueRowsRight

\* C14 amended: the report has one row for each generated product that at
\* least one order item names, so at most 3 rows, and 3 when every product
\* was drawn for an item; each row's revenue is the sum of quantity x
\* unit_price over the order items of its product; the rows are sorted by
\* falling revenue.
C14_RowPerSoldProduct ==
    RanScenario =>
        /\ {report[1].rows[i].product_id : i \in 1..Len(report[1].rows)}
              = {oi.product_id : oi \in Rows(db.tables, "order_items")}
        /\ Len(report[1].rows)
              = Cardinality({oi.product_id : oi \in Rows(db.tables, "order_items")})
        /\ Len(report[1].rows) <= 3
        /\ (\A q \in Rows(db.tables, "products") :
                \E oi \in Rows(db.tables, "order_items") :
                    oi.product_id = q.product_id)
              => Len(report[1].rows) = 3
        /\ RevenueRowsRight

\* the scenario's report with three rows of three different revenues
C14_Witness ==
    /\ RanScenario
    /\ Len(report[1].rows) = 3
    /\ report[1].rows[1].total_revenue > report[1].rows[2].total_revenue
    /\ report[1].rows[2].total_revenue > report[1].rows[3].total_revenue

\* the collection after the step begins with the collection before it
Extends(later, earlier) ==
    /\ Len(later) >= Len(earlier)
    /\ \A i \in 1..Len(earlier) : later[i] = earlier[i]

\* C15: no step deletes or changes a generated user, product, order item or
\* review; no step deletes or reorders an order or changes anything of it but
\* total_amount; total_amount changes only in the aggregation step, which
\* changes nothing else and happens exactly once in a run.
C15_OnlyTotalsChange ==
    [][/\ Extends(users', users) /\ Extends(products', products)
       /\ Extends(order_items', order_items) /\ Extends(reviews', reviews)
       /\ Len(orders') >= Len(orders)
       /\ \A i \in 1..Len(orders) :
             [orders'[i] EXCEPT !.total_amount = orders[i].total_amount] = orders[i]
       /\ pc # "totals" => Extends(orders', orders)
       /\ pc = "totals" =>
             /\ Len(orders') = Len(orders)
             /\ UNCHANGED <<users, products, order_items, reviews>>
       /\ Cardinality({i \in 1..Len(log') : log'[i] = "totals"}) <= 1
       /\ (pc' = "idle" /\ exit'.cmd = "generate" /\ exit'.status = 0) =>
             Cardinality({i \in 1..Len(log') : log'[i] = "totals"}) = 1]_vars

\* the aggregation step has just run and has given an order a total
C15_Witness ==
    /\ pc = "gen_reviews" /\ reviews = <<>>
    /\ log # <<>> /\ log[Len(log)] = "totals"
    /\ Len(orders) = counts.orders
    /\ \E i \in 1..Len(orders) : orders[i].total_amount > 0
    /\ \E i \in 1..Len(orders) : orders[i].total_amount = 0

\* the identities of a collection are its positions: 1, 2, ... without a gap
\* or a repeat
Numbered(rows, col) == \A i \in 1..Len(rows) : rows[i][col] = i

\* the running or last load found the dataset files as the generator wrote them
LoadsGenerated ==
    /\ InLoad
    /\ \A t \in DOMAIN loaded.files :
          loaded.files[t].exists /\ loaded.files[t].rows = Output[t]

\* C16: in every generated collection the identities are exactly 1..count,
\* the user emails are pairwise distinct and no foreign key dangles; a load of
\* the files as the generator wrote them meets no constraint violation and
\* ends with its commit, all rows in the database.
C16_GeneratedDatasetLoads ==
    /\ \A t \in DOMAIN Output : Numbered(Output[t], PrimaryKey(t))
    /\ GenFinished => \A t \in DOMAIN Output : Len(Output[t]) = counts[t]
    /\ KeysUnique(Output)
    /\ TablesClosed(Output)
    /\ LoadsGenerated =>
          /\ pc # "raise"
          /\ ExitError \notin {"IntegrityError", "FileNotFoundError"}
          /\ LoadEnded =>
                /\ exit.status = 0
                /\ log[Len(log)] = "commit"
                /\ \A t \in DOMAIN Output : db.tables[t] = Output[t]

\* a load of the generated files has committed every row; an order item
\* names the last order and a review the last user
C16_Witness ==
    /\ LoadsGenerated /\ LoadEnded /\ exit.status = 0
    /\ \A t \in DOMAIN Output : Len(db.tables[t]) = counts[t] /\ counts[t] > 0
    /\ \E i \in 1..Len(db.tables["order_items"]) :
          db.tables["order_items"][i].order_id = counts.orders
    /\ \E i \in 1..Len(db.tables["reviews"]) :
          db.tables["reviews"][i].user_id = counts.users

====
